---- MODULE Spec2Model ----
(***************************************************************************)
(* tryphon: resolution of a typed configuration record from environment   *)
(* variables.  The code generated by #[derive(Config)] is modelled by the  *)
(* operators below, parameterised by the declared type (the schema); the   *)
(* key source is std::env behind tryphon::read_env.                        *)
(***************************************************************************)
EXTENDS Integers, Sequences, FiniteSets, TLC

VARIABLES
  root,       \* the declared root type deriving Config (fixed after Init)
  env,        \* the process environment: key -> Unset | NonUnicode | Text(s)
  overrides,  \* TEST_OVERRIDES, one RefCell<Option<HashMap>> per thread
  caller,     \* the thread of the last Root::load() call (NoThread when the
              \* environment changed since, or before any call)
  result,     \* what that call returned
  lookups,    \* the read_env(key) calls that call made, in order
  attempts,   \* per record block that call evaluated (the struct, or each enum
              \* variant tried): its temp_tuple of per-field results and its result
  handles,    \* per thread: the live EnvOverrides values it owns, counted by
              \* the thread whose init() returned them
  pc,         \* per thread: where it is ([at |-> ..]) and the panic payload it
              \* carries, if any ([e |-> ..])
  printed     \* what pretty_print(ErrorPrintMode::List) returned for the error
              \* in result (NoCall when it was not printed)

vars ==
  <<root, env, overrides, caller, result, lookups, attempts, handles, pc, printed>>

-----------------------------------------------------------------------------
(* Bounds of the model *)

MaxKeys == 2        \* longest candidate-key list (#[env] attributes on a field)
NumFields == 4      \* fields of a multi-field root record
NumVariants == 2    \* variants of a root enum
MaxSetters == 2     \* NAME = "value" pairs listed in an #[env_vars(..)] attribute

Keys == {"A", "B"}
Threads == {"t1", "t2"}

\* Raw strings are sequences of characters.
RawValues == {<<"5">>, <<"x">>}

-----------------------------------------------------------------------------
(* Option, Result and values *)

NoneVal == [tag |-> "None"]
SomeVal(v) == [tag |-> "Some", v |-> v]

Ok(v) == [ok |-> TRUE, v |-> v]
Err(e) == [ok |-> FALSE, e |-> e]

U8(n) == [tag |-> "u8", n |-> n]

NoCall == [tag |-> "NoCall"]
\* ... and the caller when there is none
NoThread == "none"

\* let x = e; body: e is evaluated once and body sees its value
Let(e, Body(_)) == CHOOSE r \in {Body(x) : x \in {e}} : TRUE

-----------------------------------------------------------------------------
(* The key source *)

Unset == [tag |-> "unset"]
NonUnicode == [tag |-> "bytes"]
Text(s) == [tag |-> "text", s |-> s]

EnvValues == {Unset, NonUnicode} \cup {Text(s) : s \in RawValues}

NotPresent == [kind |-> "NotPresent"]
NotUnicode == [kind |-> "NotUnicode"]

\* VarError's Display
VarErrorToString(e) ==
  IF e = NotPresent THEN "environment variable not found"
  ELSE "environment variable was not valid unicode"

\* std::env::var(key)
StdEnvVar(key) ==
  IF env[key] = Unset THEN Err(NotPresent)
  ELSE IF env[key] = NonUnicode THEN Err(NotUnicode)
  ELSE Ok(env[key].s)

\* EnvOverrides::is_initialized() on thread t
IsInitialized(t) == overrides[t] # NoneVal

\* a faulty Get: one map shared by the threads that have a scope
GetShared(t, key) ==
  IF overrides[t] # NoneVal
  THEN IF \E u \in DOMAIN overrides :
            overrides[u] # NoneVal /\ overrides[u].v[key] # NoneVal
       THEN overrides[CHOOSE u \in DOMAIN overrides :
                        overrides[u] # NoneVal /\ overrides[u].v[key] # NoneVal].v[key]
       ELSE NoneVal
  ELSE NoneVal

\* EnvOverrides::get(key) on thread t
Get(t, key) ==
  IF overrides[t] # NoneVal THEN overrides[t].v[key] ELSE NoneVal

\* a faulty ReadEnv: a key without override falls back to the real environment
ReadEnvFallingBack(t, key) ==
  IF IsInitialized(t) /\ Get(t, key) # NoneVal THEN Ok(Get(t, key).v)
  ELSE StdEnvVar(key)

\* tryphon::read_env(key) on thread t
ReadEnv(t, key) ==
  IF IsInitialized(t)
  THEN IF Get(t, key) # NoneVal THEN Ok(Get(t, key).v) ELSE Err(NotPresent)
  ELSE StdEnvVar(key)

-----------------------------------------------------------------------------
(* EnvOverrides: what init, set and drop do to the calling thread's slot of *)
(* TEST_OVERRIDES.  panic is the payload of the panic raised, if any.       *)

AlreadyInitialized ==
  "TestOverrides already initialized. You must not create multiple instances of TestOverrides for single thread."
NotInitialized == "TestOverrides not initialized."

\* HashMap::new()
EmptyMap == [k \in Keys |-> NoneVal]

\* a faulty EnvOverridesInit: a second init is accepted and keeps the map
EnvOverridesInitAccepting(slot) ==
  [panic |-> NoneVal, slot |-> IF slot # NoneVal THEN slot ELSE SomeVal(EmptyMap)]

\* a faulty EnvOverridesInit: a second init panics after emptying the map
EnvOverridesInitClearing(slot) ==
  IF slot # NoneVal
  THEN [panic |-> SomeVal(AlreadyInitialized), slot |-> SomeVal(EmptyMap)]
  ELSE [panic |-> NoneVal, slot |-> SomeVal(EmptyMap)]

\* EnvOverrides::init()
EnvOverridesInit(slot) ==
  IF slot # NoneVal
  THEN [panic |-> SomeVal(AlreadyInitialized), slot |-> slot]
  ELSE [panic |-> NoneVal, slot |-> SomeVal(EmptyMap)]

\* a faulty EnvOverridesSet: a thread without a scope gets one
EnvOverridesSetCreating(slot, key, value) ==
  IF slot # NoneVal
  THEN [panic |-> NoneVal, slot |-> SomeVal([slot.v EXCEPT ![key] = SomeVal(value)])]
  ELSE [panic |-> NoneVal, slot |-> SomeVal([EmptyMap EXCEPT ![key] = SomeVal(value)])]

\* a faulty EnvOverridesSet: the map is replaced by one holding the new entry only
EnvOverridesSetClearing(slot, key, value) ==
  IF slot # NoneVal
  THEN [panic |-> NoneVal, slot |-> SomeVal([EmptyMap EXCEPT ![key] = SomeVal(value)])]
  ELSE [panic |-> SomeVal(NotInitialized), slot |-> slot]

\* EnvOverrides::set(key, value)
EnvOverridesSet(slot, key, value) ==
  IF slot # NoneVal
  THEN [panic |-> NoneVal, slot |-> SomeVal([slot.v EXCEPT ![key] = SomeVal(value)])]
  ELSE [panic |-> SomeVal(NotInitialized), slot |-> slot]

\* a faulty EnvOverridesDrop: the slot is emptied but stays initialized
EnvOverridesDropKeepingScope(slot) ==
  IF slot # NoneVal
  THEN [panic |-> NoneVal, slot |-> SomeVal(EmptyMap)]
  ELSE [panic |-> SomeVal(NotInitialized), slot |-> slot]

\* Drop for EnvOverrides
EnvOverridesDrop(slot) ==
  IF slot # NoneVal
  THEN [panic |-> NoneVal, slot |-> NoneVal]
  ELSE [panic |-> SomeVal(NotInitialized), slot |-> slot]

\* where a thread is
At(at) == [at |-> at, e |-> NoneVal]
\* ... carrying the payload e of a panic
AtWith(at, e) == [at |-> at, e |-> e]

-----------------------------------------------------------------------------
(* Decoders *)

Digits == {"0", "1", "2", "3", "4", "5", "6", "7", "8", "9"}

DigitValue(c) ==
  CASE c = "0" -> 0 [] c = "1" -> 1 [] c = "2" -> 2 [] c = "3" -> 3
    [] c = "4" -> 4 [] c = "5" -> 5 [] c = "6" -> 6 [] c = "7" -> 7
    [] c = "8" -> 8 [] c = "9" -> 9

U8Max == 255

\* raw.parse::<u8>().map_err(|e| e.to_string())
ParseU8(raw) ==
  LET digits == IF raw # <<>> /\ raw[1] = "+" THEN Tail(raw) ELSE raw
      Acc[i \in 0..Len(digits)] ==
        IF i = 0 THEN 0 ELSE 10 * Acc[i - 1] + DigitValue(digits[i])
  IN IF raw = <<>> THEN Err("cannot parse integer from empty string")
     ELSE IF digits = <<>> \/ \E i \in 1..Len(digits) : digits[i] \notin Digits
       THEN Err("invalid digit found in string")
     ELSE IF Acc[Len(digits)] > U8Max
       THEN Err("number too large to fit in target type")
     ELSE Ok(U8(Acc[Len(digits)]))

\* format!(fmt, args..)
Format(fmt, args) == [fmt |-> fmt, args |-> args]

\* enums deriving ConfigValueDecoder, by type path: their unit variants
ValueEnumTypes == {<<"SwitchState">>, <<"Loud">>, <<"Answer">>}

\* enum SwitchState { On, No }, enum Loud { ON, On }, enum Answer { No, On, ON }
ValueEnumDef(ty) ==
  CASE ty = <<"SwitchState">> -> <<"On", "No">>
    [] ty = <<"Loud">> -> <<"ON", "On">>
    [] ty = <<"Answer">> -> <<"No", "On", "ON">>

\* variant.ident.to_string(): the characters of an identifier
IdentToString(ident) ==
  CASE ident = "On" -> <<"O", "n">>
    [] ident = "ON" -> <<"O", "N">>
    [] ident = "No" -> <<"N", "o">>

\* char::to_lowercase
CharToLowercase(c) ==
  CASE c = "O" -> "o"
    [] c = "N" -> "n"
    [] OTHER -> c

\* str::to_lowercase
ToLowercase(str) == [i \in DOMAIN str |-> CharToLowercase(str[i])]

\* the match arms generated for the variants: pattern => Ok(path)
Cases(enum_name, variants) ==
  [i \in DOMAIN variants |->
     [pattern |-> ToLowercase(IdentToString(variants[i])),
      path |-> [tag |-> "variant", name |-> enum_name, variant |-> variants[i]]]]

\* a faulty decoder: the raw string is matched as it is
DeriveConfigValueDecoderExact(ty, raw) ==
  LET cases == Cases(ty[1], ValueEnumDef(ty))
      hits == {i \in DOMAIN cases : cases[i].pattern = raw}
  IN IF hits # {}
     THEN Ok(cases[CHOOSE i \in hits : \A j \in hits : i <= j].path)
     ELSE Err(Format("Invalid log level: {}", <<raw>>))

\* derive(ConfigValueDecoder) on an enum: match raw.to_lowercase() { cases, _ => Err }
DeriveConfigValueDecoder(ty, raw) ==
  LET cases == Cases(ty[1], ValueEnumDef(ty))
      hits == {i \in DOMAIN cases : cases[i].pattern = ToLowercase(raw)}
  IN IF hits # {}
     THEN Ok(cases[CHOOSE i \in hits : \A j \in hits : i <= j].path)
     ELSE Err(Format("Invalid log level: {}", <<raw>>))

\* is_option(field_type): the first path segment is the ident Option
IsOption(ty) == ty[1] = "Option"

RECURSIVE Decode(_, _)
\* <ty as ConfigValueDecoder>::decode(raw)
Decode(ty, raw) ==
  IF ty[1] = "Option"
  THEN LET inner == Decode(Tail(ty), raw)
       IN IF inner.ok THEN Ok(SomeVal(inner.v)) ELSE inner
  ELSE IF ty = <<"String">> THEN Ok([tag |-> "String", s |-> raw])
  ELSE IF ty \in ValueEnumTypes THEN DeriveConfigValueDecoder(ty, raw)
  ELSE ParseU8(raw)

\* the EnvOverrides values a thread owns: none
NoHandles == [c \in Threads |-> 0]

\* how many EnvOverrides values thread t owns
Owned(t) == Cardinality(UNION {{c} \X (1..handles[t][c]) : c \in Threads})

-----------------------------------------------------------------------------
(* Declared types (the schema)                                              *)
(* A field: ident (Some(name) | None), nested (#[config]), keys (#[env]    *)
(* names in declared order), default (#[default]: Some(value) | None) and  *)
(* ty (the field type as its path idents).                                  *)

LeafField(ident, keys, default, ty) ==
  [ident |-> ident, nested |-> FALSE, keys |-> keys, default |-> default, ty |-> ty]

NestedField(ident, ty) ==
  [ident |-> ident, nested |-> TRUE, keys |-> <<>>, default |-> NoneVal, ty |-> ty]

StructDef(name, fields) == [kind |-> "struct", name |-> name, fields |-> fields]

EnumDef(name, variants) == [kind |-> "enum", name |-> name, variants |-> variants]

\* struct Inner { #[env("A")] a: u8, #[env("B")] b: u8 }
Inner ==
  StructDef("Inner",
    << LeafField(SomeVal("a"), <<"A">>, NoneVal, <<"u8">>),
       LeafField(SomeVal("b"), <<"B">>, NoneVal, <<"u8">>) >>)

\* struct Outer { #[config] inner: Inner, #[env("B")] #[env("A")] c: u8 }
Outer ==
  StructDef("Outer",
    << NestedField(SomeVal("inner"), <<"Inner">>),
       LeafField(SomeVal("c"), <<"B", "A">>, NoneVal, <<"u8">>) >>)

\* struct Pair(#[config] Inner, #[env("A")] u8)
Pair ==
  StructDef("Pair",
    << NestedField(NoneVal, <<"Inner">>),
       LeafField(NoneVal, <<"A">>, NoneVal, <<"u8">>) >>)

\* The declaration a type path names
TypeDef(ty) ==
  CASE ty = <<"Inner">> -> Inner
    [] ty = <<"Outer">> -> Outer
    [] ty = <<"Pair">> -> Pair
    [] ty = <<"Root">> -> root

-----------------------------------------------------------------------------
(* The generated field expressions *)

RECURSIVE LoadingExprLastPresent(_, _, _)
\* a faulty LoadingExpr: every key is read and the last present one wins
LoadingExprLastPresent(t, keys, n) ==
  IF n = 1
  THEN Let(ReadEnv(t, keys[1]), LAMBDA r :
         [r |-> IF r.ok THEN Ok(<<r.v, keys[1]>>) ELSE r, log |-> <<keys[1]>>])
  ELSE Let(LoadingExprLastPresent(t, keys, n - 1), LAMBDA prev :
         Let(ReadEnv(t, keys[n]), LAMBDA r :
           [r |-> IF r.ok THEN Ok(<<r.v, keys[n]>>) ELSE prev.r,
            log |-> Append(prev.log, keys[n])]))

RECURSIVE LoadingExpr(_, _, _)
\* read_env(k1).map(..).or_else(|_| read_env(k2).map(..)) ... over keys[1..n]:
\* the result paired with the key that produced it, and the keys read
LoadingExpr(t, keys, n) ==
  IF n = 1
  THEN Let(ReadEnv(t, keys[1]), LAMBDA r :
         [r |-> IF r.ok THEN Ok(<<r.v, keys[1]>>) ELSE r, log |-> <<keys[1]>>])
  ELSE Let(LoadingExpr(t, keys, n - 1), LAMBDA prev :
         IF prev.r.ok
         THEN prev
         ELSE Let(ReadEnv(t, keys[n]), LAMBDA r :
                [r |-> IF r.ok THEN Ok(<<r.v, keys[n]>>) ELSE r,
                 log |-> Append(prev.log, keys[n])]))

\* a faulty HandleMissingValue: only the first key is reported
HandleMissingValueFirstKey(f, field_idx) ==
  IF IsOption(f.ty) THEN Ok(NoneVal)
  ELSE IF f.default # NoneVal THEN Ok(f.default.v)
  ELSE Err([kind |-> "MissingValue",
            field_name |-> f.ident,
            field_idx |-> field_idx,
            env_vars |-> <<f.keys[1]>>])

\* a faulty HandleMissingValue: the default is tried before the optional flag
HandleMissingValueDefaultFirst(f, field_idx) ==
  IF f.default # NoneVal THEN Ok(f.default.v)
  ELSE IF IsOption(f.ty) THEN Ok(NoneVal)
  ELSE Err([kind |-> "MissingValue",
            field_name |-> f.ident,
            field_idx |-> field_idx,
            env_vars |-> f.keys])

\* handle_missing_value
HandleMissingValue(f, field_idx) ==
  IF IsOption(f.ty) THEN Ok(NoneVal)
  ELSE IF f.default # NoneVal THEN Ok(f.default.v)
  ELSE Err([kind |-> "MissingValue",
            field_name |-> f.ident,
            field_idx |-> field_idx,
            env_vars |-> f.keys])

\* the Ok arm of build_loading_expr's match: decode(raw.clone()).map_err(..)
DecodeOrParsingError(f, field_idx, raw, env_var_name) ==
  Let(Decode(f.ty, raw), LAMBDA decoded :
    IF decoded.ok THEN decoded
    ELSE Err([kind |-> "ParsingError",
              field_name |-> f.ident,
              field_idx |-> field_idx,
              raw |-> raw,
              message |-> decoded.e,
              env_var_name |-> env_var_name]))

\* build_loading_expr: the expression generated for a leaf field
BuildLoadingExpr(t, f, field_idx) ==
  Let(LoadingExpr(t, f.keys, Len(f.keys)), LAMBDA le :
    [log |-> le.log,
     r |-> IF le.r.ok
           THEN DecodeOrParsingError(f, field_idx, le.r.v[1], le.r.v[2])
           ELSE IF le.r.e = NotPresent THEN HandleMissingValue(f, field_idx)
           ELSE Err([kind |-> "Other",
                     message |-> VarErrorToString(le.r.e),
                     field_name |-> f.ident,
                     field_idx |-> field_idx])])

\* fields.iter().enumerate(): the positional index of the j-th declared field
FieldIdx(j) == j - 1

\* StructType::from_fields
StructTypeOf(fields) ==
  IF fields = <<>> THEN "Unit"
  ELSE IF fields[1].ident # NoneVal THEN "Named"
  ELSE "Tuple"

RECURSIVE ErrorsGatheringReversed(_, _)
\* a faulty ErrorsGathering: the errors are collected last field first
ErrorsGatheringReversed(temp_tuple, n) ==
  IF n = 0 THEN <<>>
  ELSE IF temp_tuple[n].r.ok THEN ErrorsGatheringReversed(temp_tuple, n - 1)
  ELSE <<temp_tuple[n].r.e>> \o ErrorsGatheringReversed(temp_tuple, n - 1)

RECURSIVE ErrorsGathering(_, _)
\* vec![temp_tuple.0.as_ref().err(), ..].iter().cloned().flatten().cloned().collect()
\* over the first n entries
ErrorsGathering(temp_tuple, n) ==
  IF n = 0 THEN <<>>
  ELSE IF temp_tuple[n].r.ok THEN ErrorsGathering(temp_tuple, n - 1)
  ELSE Append(ErrorsGathering(temp_tuple, n - 1), temp_tuple[n].r.e)

RECURSIVE TupleLog(_, _)
\* the read_env calls of the first n field expressions, in evaluation order
TupleLog(temp_tuple, n) ==
  IF n = 0 THEN <<>> ELSE TupleLog(temp_tuple, n - 1) \o temp_tuple[n].log

\* a faulty StructExpr: the constructor takes the tuple entries in reverse
StructExprReversed(struct_name, fields, temp_tuple) ==
  [tag |-> "struct", name |-> struct_name,
   fields |->
     CASE StructTypeOf(fields) = "Tuple" ->
            [j \in 1..Len(fields) |-> temp_tuple[Len(fields) - FieldIdx(j)].r.v]
       [] StructTypeOf(fields) = "Named" ->
            [j \in 1..Len(fields) |->
               [name |-> fields[j].ident.v,
                v |-> temp_tuple[Len(fields) - FieldIdx(j)].r.v]]
       [] OTHER -> <<>>]

\* struct_expr: the constructor applied to temp_tuple.<field_idx>.unwrap()
StructExpr(struct_name, fields, temp_tuple) ==
  [tag |-> "struct", name |-> struct_name,
   fields |->
     CASE StructTypeOf(fields) = "Tuple" ->
            [j \in 1..Len(fields) |-> temp_tuple[FieldIdx(j) + 1].r.v]
       [] StructTypeOf(fields) = "Named" ->
            [j \in 1..Len(fields) |->
               [name |-> fields[j].ident.v, v |-> temp_tuple[FieldIdx(j) + 1].r.v]]
       [] OTHER -> <<>>]

RECURSIVE LoadType(_, _)

\* a faulty BuildNestedConfigExpr: only the child's first error is kept
BuildNestedConfigExprFirstOnly(t, f, field_idx) ==
  Let(LoadType(t, f.ty), LAMBDA loaded :
    [log |-> loaded.log,
     r |-> IF loaded.r.ok THEN loaded.r
           ELSE Err([kind |-> "Nested",
                     field_name |-> f.ident,
                     error |-> [field_errors |-> <<loaded.r.e.field_errors[1]>>],
                     field_idx |-> field_idx])])

\* build_nested_config_expr: <field_type as Config>::load().map_err(Nested {..})
BuildNestedConfigExpr(t, f, field_idx) ==
  Let(LoadType(t, f.ty), LAMBDA loaded :
    [log |-> loaded.log,
     r |-> IF loaded.r.ok THEN loaded.r
           ELSE Err([kind |-> "Nested",
                     field_name |-> f.ident,
                     error |-> loaded.r.e,
                     field_idx |-> field_idx])])

RECURSIVE TempTupleFailFast(_, _, _)
\* a faulty TempTuple: evaluation stops at the first failing field
TempTupleFailFast(t, fields, n) ==
  IF n = 0 THEN <<>>
  ELSE Let(TempTupleFailFast(t, fields, n - 1), LAMBDA prev :
         IF prev # <<>> /\ ~prev[Len(prev)].r.ok
         THEN prev
         ELSE Append(prev,
                     IF fields[n].nested
                     THEN BuildNestedConfigExpr(t, fields[n], FieldIdx(n))
                     ELSE BuildLoadingExpr(t, fields[n], FieldIdx(n))))

RECURSIVE TempTuple(_, _, _)
\* let temp_tuple = (expr_0, expr_1, ..): the first n field expressions,
\* evaluated in declaration order
TempTuple(t, fields, n) ==
  IF n = 0 THEN <<>>
  ELSE Append(TempTuple(t, fields, n - 1),
              IF fields[n].nested
              THEN BuildNestedConfigExpr(t, fields[n], FieldIdx(n))
              ELSE BuildLoadingExpr(t, fields[n], FieldIdx(n)))

\* the block after temp_tuple: gather the errors, then construct or fail
StructResult(struct_name, fields, temp_tuple) ==
  Let(ErrorsGathering(temp_tuple, Len(temp_tuple)), LAMBDA field_errors :
    [r |-> IF field_errors = <<>>
           THEN Ok(StructExpr(struct_name, fields, temp_tuple))
           ELSE Err([field_errors |-> field_errors]),
     log |-> TupleLog(temp_tuple, Len(temp_tuple)),
     temp_tuple |-> temp_tuple])

\* build_loading_for_struct: the block generated for a record
BuildLoadingForStruct(t, struct_name, fields) ==
  IF StructTypeOf(fields) # "Unit"
  THEN Let(TempTuple(t, fields, Len(fields)), LAMBDA temp_tuple :
         StructResult(struct_name, fields, temp_tuple))
  ELSE [r |-> Ok(StructExpr(struct_name, fields, <<>>)),
        log |-> <<>>,
        temp_tuple |-> <<>>]

\* one evaluated record block as an entry of attempts
Attempt(variant, s) == [variant |-> variant, temp_tuple |-> s.temp_tuple, r |-> s.r]

\* the block generated for variants[n]
VariantExpr(t, enum_name, variants, n) ==
  BuildLoadingForStruct(t, <<enum_name, variants[n].name>>, variants[n].fields)

RECURSIVE OrElseChainLastSuccess(_, _, _, _)
\* a faulty OrElseChain: every variant is tried and the last success wins
OrElseChainLastSuccess(t, enum_name, variants, n) ==
  IF n = 1
  THEN Let(VariantExpr(t, enum_name, variants, 1), LAMBDA first :
         [r |-> first.r, log |-> first.log, attempts |-> <<Attempt(1, first)>>])
  ELSE Let(OrElseChainLastSuccess(t, enum_name, variants, n - 1), LAMBDA acc :
         Let(VariantExpr(t, enum_name, variants, n), LAMBDA next :
           [r |-> IF next.r.ok \/ ~acc.r.ok THEN next.r ELSE acc.r,
            log |-> acc.log \o next.log,
            attempts |-> Append(acc.attempts, Attempt(n, next))]))

RECURSIVE OrElseChainMerged(_, _, _, _)
\* a faulty OrElseChain: the errors of the failed variants are merged
OrElseChainMerged(t, enum_name, variants, n) ==
  IF n = 1
  THEN Let(VariantExpr(t, enum_name, variants, 1), LAMBDA first :
         [r |-> first.r, log |-> first.log, attempts |-> <<Attempt(1, first)>>])
  ELSE Let(OrElseChainMerged(t, enum_name, variants, n - 1), LAMBDA acc :
         IF acc.r.ok THEN acc
         ELSE Let(VariantExpr(t, enum_name, variants, n), LAMBDA next :
                [r |-> IF next.r.ok THEN next.r
                       ELSE Err([field_errors |->
                                   acc.r.e.field_errors \o next.r.e.field_errors]),
                 log |-> acc.log \o next.log,
                 attempts |-> Append(acc.attempts, Attempt(n, next))]))

RECURSIVE OrElseChainEager(_, _, _, _)
\* a faulty OrElseChain, acc.or(next): the next block is evaluated, and its
\* keys looked up, whether acc failed or not
OrElseChainEager(t, enum_name, variants, n) ==
  IF n = 1
  THEN Let(VariantExpr(t, enum_name, variants, 1), LAMBDA first :
         [r |-> first.r, log |-> first.log, attempts |-> <<Attempt(1, first)>>])
  ELSE Let(OrElseChainEager(t, enum_name, variants, n - 1), LAMBDA acc :
         Let(VariantExpr(t, enum_name, variants, n), LAMBDA next :
           [r |-> IF acc.r.ok THEN acc.r ELSE next.r,
            log |-> acc.log \o next.log,
            attempts |-> Append(acc.attempts, Attempt(n, next))]))

RECURSIVE OrElseChain(_, _, _, _)
\* acc.or_else(|_| next) folded over variants[1..n]; attempts lists the
\* variants whose block was evaluated
OrElseChain(t, enum_name, variants, n) ==
  IF n = 1
  THEN Let(VariantExpr(t, enum_name, variants, 1), LAMBDA first :
         [r |-> first.r, log |-> first.log, attempts |-> <<Attempt(1, first)>>])
  ELSE Let(OrElseChain(t, enum_name, variants, n - 1), LAMBDA acc :
         IF acc.r.ok THEN acc
         ELSE Let(VariantExpr(t, enum_name, variants, n), LAMBDA next :
                [r |-> next.r, log |-> acc.log \o next.log,
                 attempts |-> Append(acc.attempts, Attempt(n, next))]))

\* derive_config: <ty as Config>::load() on thread t
LoadType(t, ty) ==
  Let(TypeDef(ty), LAMBDA def :
    IF def.kind = "struct"
    THEN Let(BuildLoadingForStruct(t, <<def.name>>, def.fields), LAMBDA s :
           [r |-> s.r, log |-> s.log, attempts |-> <<Attempt(0, s)>>])
    ELSE OrElseChain(t, def.name, def.variants, Len(def.variants)))

-----------------------------------------------------------------------------
(* ConfigError::pretty_print(ErrorPrintMode::List).  A String is the        *)
(* sequence of its pieces; a field name, a key or a message is one piece    *)
(* (identifiers hold no '.'), a number is printed digit by digit.           *)

Str(s) == <<s>>

DigitChars == <<"0", "1", "2", "3", "4", "5", "6", "7", "8", "9">>

RECURSIVE UsizeToString(_)
\* usize::to_string()
UsizeToString(n) ==
  IF n < 10 THEN <<DigitChars[n + 1]>>
  ELSE UsizeToString(n \div 10) \o <<DigitChars[(n % 10) + 1]>>

RECURSIVE Join(_, _)
\* [String]::join(sep)
Join(strs, sep) ==
  IF strs = <<>> THEN <<>>
  ELSE IF Len(strs) = 1 THEN strs[1]
  ELSE strs[1] \o sep \o Join(Tail(strs), sep)

\* FieldPath::root()
FieldPathRoot == <<>>

\* a faulty WithSegment: the segment is put in front
WithSegmentInFront(path, rhs) == <<rhs>> \o path

\* FieldPath::with_segment
WithSegment(path, rhs) == Append(path, rhs)

\* FieldPath::dotted_path
DottedPath(path) == Join(path, <<".">>)

\* field_name.clone().unwrap_or(field_idx.to_string())
Segment(error) ==
  IF error.field_name # NoneVal THEN Str(error.field_name.v)
  ELSE UsizeToString(error.field_idx)

ParsingErrorFmt == "Parsing error for env var '{}' for field '{}': {} (raw value: {})"
MissingValueFmt == "Missing value for field '{}', tried env vars: {}"
OtherFmt == "Missing value for field '{}': {}"
HeaderFmt == "Found {} configuration error(s):"

RECURSIVE PrintErrorsAsList(_, _)
\* ListPrinter::print_errors_as_list: the lines pushed to the buffer
PrintErrorsAsList(errors, parent_field_path) ==
  IF errors = <<>> THEN <<>>
  ELSE LET error == Head(errors)
           field_path == WithSegment(parent_field_path, Segment(error))
       IN (CASE error.kind = "Nested" ->
                  PrintErrorsAsList(error.error.field_errors, field_path)
             [] error.kind = "ParsingError" ->
                  << Format(ParsingErrorFmt,
                            << Str(error.env_var_name), DottedPath(field_path),
                               Str(error.message), error.raw >>) >>
             [] error.kind = "MissingValue" ->
                  << Format(MissingValueFmt,
                            << DottedPath(field_path),
                               Join([i \in DOMAIN error.env_vars |->
                                       Str(error.env_vars[i])], <<", ">>) >>) >>
             [] error.kind = "Other" ->
                  << Format(OtherFmt,
                            << DottedPath(field_path), Str(error.message) >>) >>)
          \o PrintErrorsAsList(Tail(errors), parent_field_path)

\* a faulty ListPrinterPrint: the header counts the top-level nodes
ListPrinterPrintTopLevel(errors) ==
  << Format(HeaderFmt, <<UsizeToString(Len(errors))>>) >>
  \o PrintErrorsAsList(errors, FieldPathRoot)

\* ListPrinter::new().print(errors): the header and the buffer, line by line
ListPrinterPrint(errors) ==
  Let(PrintErrorsAsList(errors, FieldPathRoot), LAMBDA buffer :
    << Format(HeaderFmt, <<UsizeToString(Len(buffer))>>) >> \o buffer)

-----------------------------------------------------------------------------
(* The declared root types the model ranges over *)

FieldIdents == <<"f0", "f1", "f2", "f3", "f4", "f5">>
VariantIdents == <<"V1", "V2", "V3", "V4">>

KeyLists == UNION {[1..n -> Keys] : n \in 1..MaxKeys}

\* #[default(42)] on a u8 field, #[default(Some(42))] on an Option<u8> field:
\* a value no raw string of RawValues decodes to
DefaultExpr(ty) == IF IsOption(ty) THEN SomeVal(U8(42)) ELSE U8(42)

LeafTypes == {<<"u8">>, <<"Option", "u8">>}

\* every leaf field declaration: key list x default x optional
LeafShapes ==
  UNION {{LeafField(NoneVal, ks, d, ty) :
            ks \in KeyLists, d \in {NoneVal, SomeVal(DefaultExpr(ty))}} :
         ty \in LeafTypes}

\* the field declarations of the multi-field records
RecordShapes ==
  { LeafField(NoneVal, <<"A">>, NoneVal, <<"u8">>),
    LeafField(NoneVal, <<"B">>, NoneVal, <<"Option", "u8">>),
    LeafField(NoneVal, <<"B", "A">>, SomeVal(DefaultExpr(<<"u8">>)), <<"u8">>),
    NestedField(NoneVal, <<"Outer">>) }

\* the bodies of the variants of the root enums
VariantShapes ==
  { <<>>,
    << LeafField(NoneVal, <<"A">>, NoneVal, <<"u8">>) >>,
    << LeafField(NoneVal, <<"B">>, NoneVal, <<"u8">>) >>,
    << LeafField(NoneVal, <<"A">>, NoneVal, <<"u8">>),
       LeafField(NoneVal, <<"B">>, NoneVal, <<"Option", "u8">>) >>,
    << NestedField(NoneVal, <<"Inner">>) >> }

\* the fields of a named struct (idents f0, f1, ..) or of a tuple struct
WithIdents(shapes, named) ==
  [i \in 1..Len(shapes) |->
     [shapes[i] EXCEPT !.ident = IF named THEN SomeVal(FieldIdents[i]) ELSE NoneVal]]

Schemas ==
  \* the unit struct
  {StructDef("Root", <<>>)}
  \* single-field structs over every leaf declaration
  \cup {StructDef("Root", WithIdents(<<f>>, named)) :
          f \in LeafShapes, named \in BOOLEAN}
  \* multi-field structs
  \cup {StructDef("Root", WithIdents(fs, named)) :
          fs \in [1..NumFields -> RecordShapes], named \in BOOLEAN}
  \* enums
  \cup {EnumDef("Root",
          [v \in 1..NumVariants |->
             [name |-> VariantIdents[v], fields |-> WithIdents(bodies[v], TRUE)]]) :
          bodies \in [1..NumVariants -> VariantShapes]}

-----------------------------------------------------------------------------
(* The state machine *)

Init ==
  /\ root \in Schemas
  /\ env = [k \in Keys |-> Unset]
  /\ overrides = [t \in Threads |-> NoneVal]
  /\ caller = NoThread
  /\ result = NoCall
  /\ lookups = <<>>
  /\ attempts = <<>>
  /\ handles = [t \in Threads |-> NoHandles]
  /\ pc = [t \in Threads |-> At("idle")]
  /\ printed = NoCall

\* std::env::set_var(key, value), value any OsStr
SetVar(key, value) ==
  /\ value # Unset
  /\ env' = [env EXCEPT ![key] = value]
  /\ caller' = NoThread
  /\ result' = NoCall
  /\ lookups' = <<>>
  /\ attempts' = <<>>
  /\ printed' = NoCall
  /\ UNCHANGED <<root, overrides, handles, pc>>

\* std::env::remove_var(key)
RemoveVar(key) ==
  /\ env' = [env EXCEPT ![key] = Unset]
  /\ caller' = NoThread
  /\ result' = NoCall
  /\ lookups' = <<>>
  /\ attempts' = <<>>
  /\ printed' = NoCall
  /\ UNCHANGED <<root, overrides, handles, pc>>

\* a faulty Load: the result of the previous call is kept and returned again
LoadCached(t) ==
  \E loaded \in {LoadType(t, <<"Root">>)} :
     /\ pc[t].at \in {"idle", "body"}
     /\ caller' = t
     /\ result' = IF result # NoCall THEN result ELSE loaded.r
     /\ lookups' = loaded.log
     /\ attempts' = loaded.attempts
     /\ printed' = NoCall
     /\ UNCHANGED <<root, env, overrides, handles, pc>>

\* Root::load() called on thread t
Load(t) ==
  \E loaded \in {LoadType(t, <<"Root">>)} :
     /\ pc[t].at \in {"idle", "body"}
     /\ caller' = t
     /\ result' = loaded.r
     /\ lookups' = loaded.log
     /\ attempts' = loaded.attempts
     /\ printed' = NoCall
     /\ UNCHANGED <<root, env, overrides, handles, pc>>

Next ==
  \/ \E k \in Keys, v \in EnvValues : SetVar(k, v)
  \/ \E k \in Keys : RemoveVar(k)
  \/ \E t \in Threads : Load(t)

Spec == Init /\ [][Next]_vars

-----------------------------------------------------------------------------
(* Override scopes: EnvOverrides used directly and through #[env_vars]      *)

\* the declared root type of the runs with override scopes
OverrideSchemas ==
  { StructDef("Root",
      WithIdents(<< LeafField(NoneVal, <<"A">>, NoneVal, <<"u8">>),
                    LeafField(NoneVal, <<"B">>, NoneVal, <<"Option", "u8">>) >>,
                 TRUE)) }

\* what the real environment holds under a key in these runs
OverrideEnvValues == {Text(<<"5">>)}

\* the NAME = "value" lists of an #[env_vars(..)] attribute
SetterLists == UNION {[1..n -> Keys \X RawValues] : n \in 0..MaxSetters}

\* the payload of a panic raised by the body of a wrapped function
BodyPanic == "panic in the function body"

InitOverrides ==
  /\ root \in OverrideSchemas
  /\ env = [k \in Keys |-> Unset]
  /\ overrides = [t \in Threads |-> NoneVal]
  /\ caller = NoThread
  /\ result = NoCall
  /\ lookups = <<>>
  /\ attempts = <<>>
  /\ handles = [t \in Threads |-> NoHandles]
  /\ pc = [t \in Threads |-> At("idle")]
  /\ printed = NoCall

\* the record of thread t's last call is dropped when t touches its scope
ForgetCallOf(t) ==
  IF result # NoCall /\ caller = t
  THEN /\ caller' = NoThread /\ result' = NoCall
       /\ lookups' = <<>> /\ attempts' = <<>> /\ printed' = NoCall
  ELSE UNCHANGED <<caller, result, lookups, attempts, printed>>

\* thread t calls EnvOverrides::init(), in plain code or in a wrapped body
\* (where catch_unwind catches the panic)
CallInit(t) ==
  /\ pc[t].at \in {"idle", "body"}
  /\ \E o \in {EnvOverridesInit(overrides[t])} :
       /\ overrides' = [overrides EXCEPT ![t] = o.slot]
       /\ IF o.panic # NoneVal
          THEN /\ pc' = [pc EXCEPT ![t] =
                           AtWith(IF pc[t].at = "body" THEN "caught" ELSE "panicking",
                                  o.panic)]
               /\ UNCHANGED handles
          ELSE /\ handles' = [handles EXCEPT ![t][t] = @ + 1]
               /\ UNCHANGED pc
  /\ ForgetCallOf(t)
  /\ UNCHANGED <<root, env>>

\* thread t calls set(key, value) on an EnvOverrides value it owns
CallSet(t, key, value) ==
  /\ pc[t].at = "idle"
  /\ Owned(t) > 0
  /\ \E o \in {EnvOverridesSet(overrides[t], key, value)} :
       /\ overrides' = [overrides EXCEPT ![t] = o.slot]
       /\ pc' = IF o.panic # NoneVal
                THEN [pc EXCEPT ![t] = AtWith("panicking", o.panic)]
                ELSE pc
  /\ ForgetCallOf(t)
  /\ UNCHANGED <<root, env, handles>>

\* thread t drops an EnvOverrides value it owns
CallDrop(t) ==
  /\ pc[t].at = "idle"
  /\ Owned(t) > 0
  /\ \E o \in {EnvOverridesDrop(overrides[t])} :
       /\ overrides' = [overrides EXCEPT ![t] = o.slot]
       /\ pc' = IF o.panic # NoneVal
                THEN [pc EXCEPT ![t] = AtWith("panicking", o.panic)]
                ELSE pc
  /\ \E c \in Threads :
       /\ handles[t][c] > 0
       /\ handles' = [handles EXCEPT ![t][c] = @ - 1]
  /\ ForgetCallOf(t)
  /\ UNCHANGED <<root, env>>

RECURSIVE Setters(_, _, _)
\* #(#setters)*: overrides.set(name, value) for the first n listed pairs
Setters(slot, setters, n) ==
  IF n = 0 THEN [panic |-> NoneVal, slot |-> slot]
  ELSE Let(Setters(slot, setters, n - 1), LAMBDA o :
         IF o.panic # NoneVal THEN o
         ELSE EnvOverridesSet(o.slot, setters[n][1], setters[n][2]))

\* thread t enters a function wrapped by #[env_vars(setters)]:
\* EnvOverrides::init(), then the setters, then the body starts
EnvVarsEnter(t, setters) ==
  /\ pc[t].at = "idle"
  /\ \E i \in {EnvOverridesInit(overrides[t])} :
       IF i.panic # NoneVal
       THEN /\ overrides' = [overrides EXCEPT ![t] = i.slot]
            /\ pc' = [pc EXCEPT ![t] = AtWith("panicking", i.panic)]
            /\ UNCHANGED handles
       ELSE \E o \in {Setters(i.slot, setters, Len(setters))} :
              /\ overrides' = [overrides EXCEPT ![t] = o.slot]
              /\ handles' = [handles EXCEPT ![t][t] = @ + 1]
              /\ pc' = [pc EXCEPT ![t] =
                          IF o.panic # NoneVal THEN AtWith("panicking", o.panic)
                          ELSE At("body")]
  /\ ForgetCallOf(t)
  /\ UNCHANGED <<root, env>>

\* the body of the wrapped function ends: it returns (e = NoneVal) or panics
\* with payload e, which catch_unwind keeps in __result
EnvVarsBodyEnd(t, e) ==
  /\ pc[t].at = "body"
  /\ pc' = [pc EXCEPT ![t] = IF e = NoneVal THEN At("returned") ELSE AtWith("caught", e)]
  /\ UNCHANGED <<root, env, overrides, caller, result, lookups, attempts, handles, printed>>

\* a faulty EnvVarsExit: a caught panic is resumed without the drop
EnvVarsExitLeaking(t) ==
  /\ pc[t].at \in {"returned", "caught"}
  /\ IF pc[t].at = "caught"
     THEN /\ pc' = [pc EXCEPT ![t] = AtWith("panicking", pc[t].e)]
          /\ UNCHANGED <<overrides, handles>>
     ELSE /\ pc' = [pc EXCEPT ![t] = At("idle")]
          /\ overrides' = [overrides EXCEPT ![t] = NoneVal]
          /\ handles' = [handles EXCEPT ![t][t] = @ - 1]
  /\ ForgetCallOf(t)
  /\ UNCHANGED <<root, env>>

\* after catch_unwind: drop(overrides), then resume_unwind(e) if the body panicked
EnvVarsExit(t) ==
  /\ pc[t].at \in {"returned", "caught"}
  /\ \E o \in {EnvOverridesDrop(overrides[t])} :
       /\ overrides' = [overrides EXCEPT ![t] = o.slot]
       /\ pc' = [pc EXCEPT ![t] =
                   IF o.panic # NoneVal THEN AtWith("panicking", o.panic)
                   ELSE IF pc[t].at = "caught" THEN AtWith("panicking", pc[t].e)
                   ELSE At("idle")]
  /\ handles' = [handles EXCEPT ![t][t] = @ - 1]
  /\ ForgetCallOf(t)
  /\ UNCHANGED <<root, env>>

RECURSIVE DropAll(_, _)
\* n EnvOverrides values dropped one after the other
DropAll(slot, n) ==
  IF n = 0 THEN [panic |-> NoneVal, slot |-> slot]
  ELSE Let(EnvOverridesDrop(slot), LAMBDA o :
         IF o.panic # NoneVal THEN o ELSE DropAll(o.slot, n - 1))

\* a panicking thread unwinds: the EnvOverrides values it owns are dropped and
\* the thread ends; a panic raised by a drop while unwinding aborts the process
Unwind(t) ==
  /\ pc[t].at = "panicking"
  /\ \E o \in {DropAll(overrides[t], Owned(t))} :
       /\ overrides' = [overrides EXCEPT ![t] = o.slot]
       /\ pc' = IF o.panic # NoneVal
                THEN [u \in Threads |-> AtWith("aborted", o.panic)]
                ELSE [pc EXCEPT ![t] = AtWith("dead", pc[t].e)]
  /\ handles' = [handles EXCEPT ![t] = NoHandles]
  /\ ForgetCallOf(t)
  /\ UNCHANGED <<root, env>>

\* one step of thread t
ThreadStep(t) ==
  \/ Load(t)
  \/ CallInit(t)
  \/ \E k \in Keys, v \in RawValues : CallSet(t, k, v)
  \/ CallDrop(t)
  \/ \E setters \in SetterLists : EnvVarsEnter(t, setters)
  \/ \E e \in {NoneVal, SomeVal(BodyPanic)} : EnvVarsBodyEnd(t, e)
  \/ EnvVarsExit(t)
  \/ Unwind(t)

NextOverrides ==
  \/ \E k \in Keys, v \in OverrideEnvValues : SetVar(k, v)
  \/ \E k \in Keys : RemoveVar(k)
  \/ \E t \in Threads : ThreadStep(t)

SpecOverrides == InitOverrides /\ [][NextOverrides]_vars

-----------------------------------------------------------------------------
(* EnvOverrides values moved between threads.  EnvOverrides is a unit       *)
(* struct, so it is Send: a thread can hand a value it owns to another.     *)

\* thread t moves an EnvOverrides value it owns to thread u
Transfer(t, u) ==
  /\ t # u
  /\ pc[t].at = "idle"
  /\ pc[u].at = "idle"
  /\ \E c \in Threads :
       /\ handles[t][c] > 0
       /\ handles' = [handles EXCEPT ![t][c] = @ - 1, ![u][c] = @ + 1]
  /\ UNCHANGED <<root, env, overrides, caller, result, lookups, attempts, pc, printed>>

NextTransfer ==
  \/ \E k \in Keys, v \in OverrideEnvValues : SetVar(k, v)
  \/ \E k \in Keys : RemoveVar(k)
  \/ \E t \in Threads : Load(t)
  \/ \E t \in Threads : CallInit(t)
  \/ \E t \in Threads, k \in Keys, v \in RawValues : CallSet(t, k, v)
  \/ \E t \in Threads : CallDrop(t)
  \/ \E t, u \in Threads : Transfer(t, u)
  \/ \E t \in Threads : Unwind(t)

SpecTransfer == InitOverrides /\ [][NextTransfer]_vars

-----------------------------------------------------------------------------
(* Printing the error of a failed load() *)

PrintWidth == 2     \* fields of the root records whose errors are printed

\* the field declarations of these records
PrintShapes ==
  { LeafField(NoneVal, <<"A">>, NoneVal, <<"u8">>),
    LeafField(NoneVal, <<"B">>, NoneVal, <<"Option", "u8">>),
    NestedField(NoneVal, <<"Outer">>),
    NestedField(NoneVal, <<"Pair">>) }

PrintSchemas ==
  {StructDef("Root", WithIdents(fs, named)) :
     fs \in [1..PrintWidth -> PrintShapes], named \in BOOLEAN}

InitPrint ==
  /\ root \in PrintSchemas
  /\ env = [k \in Keys |-> Unset]
  /\ overrides = [t \in Threads |-> NoneVal]
  /\ caller = NoThread
  /\ result = NoCall
  /\ lookups = <<>>
  /\ attempts = <<>>
  /\ handles = [t \in Threads |-> NoHandles]
  /\ pc = [t \in Threads |-> At("idle")]
  /\ printed = NoCall

\* e.pretty_print(ErrorPrintMode::List) (and Display) on the error of result
PrettyPrint ==
  /\ result # NoCall
  /\ ~result.ok
  /\ printed' = ListPrinterPrint(result.e.field_errors)
  /\ UNCHANGED <<root, env, overrides, caller, result, lookups, attempts, handles, pc>>

NextPrint ==
  \/ \E k \in Keys, v \in EnvValues : SetVar(k, v)
  \/ \E k \in Keys : RemoveVar(k)
  \/ \E t \in Threads : Load(t)
  \/ PrettyPrint

SpecPrint == InitPrint /\ [][NextPrint]_vars

-----------------------------------------------------------------------------
(* What the claims speak about *)

Called == result # NoCall

\* the key source as the calling thread sees it
Lookup(key) == ReadEnv(caller, key)
IsNotPresent(key) == Lookup(key) = Err(NotPresent)
IsNotDecodable(key) == Lookup(key) = Err(NotUnicode)
IsFound(key) == Lookup(key).ok

\* the declared fields of the record block an attempt evaluated
AttemptFields(a) ==
  IF root.kind = "struct" THEN root.fields ELSE root.variants[a.variant].fields

\* every top-level field the call resolved: declaration f, position i, outcome out
Resolved ==
  UNION {{[f |-> AttemptFields(attempts[a])[i], i |-> i,
           out |-> attempts[a].temp_tuple[i]] :
            i \in DOMAIN attempts[a].temp_tuple} : a \in DOMAIN attempts}

ResolvedLeaves == {c \in Resolved : ~c.f.nested}

AllNotPresent(keys) == \A j \in DOMAIN keys : IsNotPresent(keys[j])

\* the positions of the failing fields of an attempt
Failing(a) == {i \in DOMAIN a.temp_tuple : ~a.temp_tuple[i].r.ok}

-----------------------------------------------------------------------------
\* C1: for a leaf field whose first key A is present with a value the decoder
\* rejects and whose second key B is present with a value the decoder accepts,
\* the field yields ParsingError on A's value under A's name, and A is the only
\* key looked up for the field.
C1_FirstPresenceWins ==
  \A c \in ResolvedLeaves :
    (/\ Len(c.f.keys) >= 2
     /\ IsFound(c.f.keys[1]) /\ ~Decode(c.f.ty, Lookup(c.f.keys[1]).v).ok
     /\ IsFound(c.f.keys[2]) /\ Decode(c.f.ty, Lookup(c.f.keys[2]).v).ok)
    => /\ ~c.out.r.ok
       /\ c.out.r.e.kind = "ParsingError"
       /\ c.out.r.e.raw = Lookup(c.f.keys[1]).v
       /\ c.out.r.e.env_var_name = c.f.keys[1]
       /\ c.out.log = <<c.f.keys[1]>>

C1_Witness ==
  \E c \in ResolvedLeaves :
    /\ c.f.keys = <<"A", "B">>
    /\ env["A"] = Text(<<"x">>) /\ env["B"] = Text(<<"5">>)
    /\ ~c.out.r.ok /\ c.out.r.e.kind = "ParsingError"

\* C2: in a field's key scan every key looked up before the last one was
\* NotPresent: a NotDecodable key ends the scan like a found key.
C2_ScanMovesOnOnlyWhenNotPresent ==
  \A c \in ResolvedLeaves :
    \A j \in 1..(Len(c.out.log) - 1) : IsNotPresent(c.out.log[j])

\* C3: if the first candidate key that is not NotPresent is NotDecodable, the
\* field resolves to Other with the retrieval failure message and the field
\* identity, whatever the later keys, the default and the optional flag.
C3_NotDecodableYieldsOther ==
  \A c \in ResolvedLeaves :
    \A j \in DOMAIN c.f.keys :
      (/\ \A h \in 1..(j - 1) : IsNotPresent(c.f.keys[h])
       /\ IsNotDecodable(c.f.keys[j]))
      => c.out.r = Err([kind |-> "Other",
                        message |-> VarErrorToString(NotUnicode),
                        field_name |-> c.f.ident,
                        field_idx |-> FieldIdx(c.i)])

\* C4: a leaf field yields MissingValue if and only if every candidate key is
\* NotPresent, it has no default and it is not optional.
C4_MissingValueIff ==
  \A c \in ResolvedLeaves :
    (~c.out.r.ok /\ c.out.r.e.kind = "MissingValue")
    <=> (AllNotPresent(c.f.keys) /\ c.f.default = NoneVal /\ ~IsOption(c.f.ty))

\* C5: a field both optional and with a default resolves to None when all its
\* keys are absent, and never resolves to its default.
C5_OptionalBeatsDefault ==
  \A c \in ResolvedLeaves :
    (IsOption(c.f.ty) /\ c.f.default # NoneVal)
    => /\ AllNotPresent(c.f.keys) => c.out.r = Ok(NoneVal)
       /\ c.out.r # Ok(c.f.default.v)

C5_Witness ==
  \E c \in ResolvedLeaves :
    /\ IsOption(c.f.ty) /\ c.f.default # NoneVal
    /\ AllNotPresent(c.f.keys)
    /\ c.out.r = Ok(NoneVal)
\* C6: record resolution never short-circuits: every declared field of an
\* evaluated record block is resolved (a leaf field has looked up its first
\* key), and a failing block's ErrorTree holds exactly one node per failing
\* field, tagged with that field's index and name, and none for the others.
C6_OneNodePerFailingField ==
  \A a \in DOMAIN attempts :
    LET at == attempts[a]
        fields == AttemptFields(at)
    IN /\ Len(at.temp_tuple) = Len(fields)
       /\ \A i \in DOMAIN fields :
            ~fields[i].nested
            => /\ at.temp_tuple[i].log # <<>>
               /\ at.temp_tuple[i].log[1] = fields[i].keys[1]
       /\ ~at.r.ok
          => LET errs == at.r.e.field_errors
             IN /\ Len(errs) = Cardinality(Failing(at))
                /\ \A i \in Failing(at) :
                     \E n \in DOMAIN errs :
                       /\ errs[n] = at.temp_tuple[i].r.e
                       /\ errs[n].field_idx = FieldIdx(i)
                       /\ errs[n].field_name = fields[i].ident
                /\ \A n \in DOMAIN errs : errs[n].field_idx + 1 \in Failing(at)

C6_Witness ==
  /\ Called /\ root.kind = "struct" /\ ~result.ok
  /\ Cardinality(Failing(attempts[1])) = 3
  /\ Len(root.fields) > 3
  /\ Len(result.e.field_errors) = 3

RECURSIVE TreesOf(_)
\* an ErrorTree and every ErrorTree nested in it
TreesOf(tree) ==
  {tree} \cup
  UNION {TreesOf(tree.field_errors[n].error) :
           n \in {m \in DOMAIN tree.field_errors :
                    tree.field_errors[m].kind = "Nested"}}

\* every ErrorTree the call built
BuiltTrees ==
  UNION {TreesOf(attempts[a].r.e) : a \in {b \in DOMAIN attempts : ~attempts[b].r.ok}}

\* C7: within one ErrorTree the field indices of consecutive nodes are
\* strictly increasing (declaration order), at every nesting level.
C7_NodesInDeclarationOrder ==
  \A tree \in BuiltTrees :
    \A n \in 1..(Len(tree.field_errors) - 1) :
      tree.field_errors[n].field_idx < tree.field_errors[n + 1].field_idx

C7_Witness ==
  /\ Called /\ ~result.ok
  /\ \E n \in 1..(Len(result.e.field_errors) - 1) :
       /\ result.e.field_errors[n].kind # "Nested"
       /\ result.e.field_errors[n + 1].kind = "Nested"
       /\ Len(result.e.field_errors[n + 1].error.field_errors) >= 2

\* the name the constructor of an attempt's record block is called by
AttemptName(a) ==
  IF root.kind = "struct" THEN <<root.name>>
  ELSE <<root.name, root.variants[a.variant].name>>

\* C8: a record block returns a constructed record if and only if every
\* field resolved without error, each field holding the value resolved at its
\* declaration position; otherwise it returns a ConfigError with a non-empty
\* field_errors; load() returns what the last evaluated block returned.
C8_AllOrNothing ==
  Called =>
    /\ result = attempts[Len(attempts)].r
    /\ \A a \in DOMAIN attempts :
         LET at == attempts[a]
             fields == AttemptFields(at)
         IN /\ at.r.ok <=> \A i \in DOMAIN fields : at.temp_tuple[i].r.ok
            /\ at.r.ok
               => /\ at.r.v.name = AttemptName(at)
                  /\ Len(at.r.v.fields) = Len(fields)
                  /\ \A j \in DOMAIN fields :
                       IF fields[j].ident = NoneVal
                       THEN at.r.v.fields[j] = at.temp_tuple[j].r.v
                       ELSE at.r.v.fields[j] =
                              [name |-> fields[j].ident.v, v |-> at.temp_tuple[j].r.v]
            /\ ~at.r.ok => at.r.e.field_errors # <<>>

C8_Witness ==
  /\ Called /\ root.kind = "struct" /\ result.ok
  /\ Len(root.fields) = NumFields
  /\ attempts[1].temp_tuple[1].r.v # attempts[1].temp_tuple[NumFields].r.v
  /\ \E j \in DOMAIN root.fields : root.fields[j].nested

\* C9: a failing nested field yields exactly one Nested node at the parent
\* level, tagged with the nested field's index and name and wrapping the
\* ErrorTree the child's own load() returns, unchanged; the parent's list
\* holds one node per failing parent field (nothing is flattened into it) and
\* failing siblings keep their nodes.
C9_NestedWrapsChildTree ==
  \A a \in DOMAIN attempts :
    LET at == attempts[a]
        fields == AttemptFields(at)
    IN \A i \in DOMAIN at.temp_tuple :
         fields[i].nested
         => LET child == LoadType(caller, fields[i].ty).r
                node == [kind |-> "Nested", field_name |-> fields[i].ident,
                         error |-> child.e, field_idx |-> FieldIdx(i)]
                errs == at.r.e.field_errors
            IN /\ at.temp_tuple[i].r.ok <=> child.ok
               /\ ~child.ok
                  => /\ at.temp_tuple[i].r = Err(node)
                     /\ Cardinality({n \in DOMAIN errs :
                                       errs[n].field_idx = FieldIdx(i)}) = 1
                     /\ \E n \in DOMAIN errs : errs[n] = node
                     /\ Len(errs) = Cardinality(Failing(at))
                     /\ \A j \in Failing(at) :
                          \E n \in DOMAIN errs : errs[n] = at.temp_tuple[j].r.e

C9_Witness ==
  /\ Called /\ root.kind = "struct" /\ ~result.ok
  /\ \E i, j \in DOMAIN root.fields :
       /\ root.fields[i].nested /\ ~root.fields[j].nested
       /\ ~attempts[1].temp_tuple[i].r.ok /\ ~attempts[1].temp_tuple[j].r.ok
       /\ Len(attempts[1].temp_tuple[i].r.e.error.field_errors) = 2
       /\ \E n, m \in DOMAIN result.e.field_errors :
            /\ result.e.field_errors[n] = attempts[1].temp_tuple[i].r.e
            /\ result.e.field_errors[m] = attempts[1].temp_tuple[j].r.e

\* the variants of the root enum whose record block resolves with zero errors
ResolvingVariants ==
  {v \in DOMAIN root.variants :
     VariantExpr(caller, root.name, root.variants, v).r.ok}

\* C10: when some variant of a sum type resolves with zero errors, load()
\* returns the first such variant in declaration order, constructed as that
\* variant.
C10_FirstResolvingVariant ==
  (Called /\ root.kind = "enum" /\ ResolvingVariants # {})
  => LET first == CHOOSE v \in ResolvingVariants :
                    \A w \in ResolvingVariants : v <= w
     IN /\ result.ok
        /\ result.v.name = <<root.name, root.variants[first].name>>
        /\ result = VariantExpr(caller, root.name, root.variants, first).r

C10_Witness ==
  /\ Called /\ root.kind = "enum"
  /\ 1 \notin ResolvingVariants /\ 2 \in ResolvingVariants
  /\ result.ok /\ result.v.name = <<"Root", "V2">>
  /\ result.v.fields # <<>>
\* C11: when every variant of a sum type fails, load() returns exactly the
\* ErrorTree of the last declared variant: one node per failing field of that
\* variant, in that variant's order, and nothing of the earlier variants.
C11_LastVariantErrorTree ==
  (Called /\ root.kind = "enum" /\ ResolvingVariants = {})
  => LET last == Len(root.variants)
         own == VariantExpr(caller, root.name, root.variants, last)
     IN /\ ~result.ok
        /\ result = own.r
        /\ result.e.field_errors = ErrorsGathering(own.temp_tuple, Len(own.temp_tuple))
        /\ Len(result.e.field_errors) =
             Cardinality({i \in DOMAIN own.temp_tuple : ~own.temp_tuple[i].r.ok})
        /\ Len(attempts) = last

C11_Witness ==
  /\ Called /\ root.kind = "enum" /\ ResolvingVariants = {}
  /\ ~result.ok
  /\ Len(attempts) = Len(root.variants)
  /\ ~attempts[1].r.ok
  /\ \A n \in DOMAIN attempts[1].r.e.field_errors :
       \A m \in DOMAIN result.e.field_errors :
         attempts[1].r.e.field_errors[n] # result.e.field_errors[m]
\* a second EnvOverrides::init() on thread t, called directly or by the
\* #[env_vars] wrapper, while t has an active scope
SecondInit(t) ==
  /\ IsInitialized(t)
  /\ CallInit(t) \/ \E setters \in SetterLists : EnvVarsEnter(t, setters)

\* C12: at most one override scope is active per thread (a thread owns at most
\* one live EnvOverrides value, and owns one exactly when its scope is
\* active), and init() on a thread with an active scope panics at once: no new
\* EnvOverrides value comes into being and the thread carries the panic.
C12_SecondInitPanics ==
  /\ [](\A t \in Threads :
          /\ Owned(t) <= 1
          /\ IsInitialized(t) <=> Owned(t) = 1)
  /\ [][\A t \in Threads :
          SecondInit(t)
          => /\ pc'[t].at \in {"panicking", "caught"}
             /\ pc'[t].e = SomeVal(AlreadyInitialized)
             /\ handles' = handles]_vars

C12_Witness ==
  \E t \in Threads :
    /\ pc[t] = AtWith("panicking", SomeVal(AlreadyInitialized))
    /\ IsInitialized(t)
    /\ Owned(t) = 1

\* C13: a rejected second init() leaves the thread's override map as it was:
\* the scope is still active and every key maps to the value it had.
C13_RejectedInitKeepsMap ==
  [][\A t \in Threads :
       SecondInit(t) => /\ overrides' = overrides
                        /\ overrides'[t] # NoneVal]_vars

C13_Witness ==
  \E t \in Threads :
    /\ pc[t].at \in {"panicking", "caught"}
    /\ pc[t].e = SomeVal(AlreadyInitialized)
    /\ overrides[t] # NoneVal
    /\ overrides[t].v["A"] = SomeVal(<<"5">>)
    /\ overrides[t].v["B"] = SomeVal(<<"x">>)
\* C14: override scopes are private to their thread: a step of thread u
\* (init, set, drop, load, entering or leaving a wrapped function, unwinding)
\* changes neither the override map of another thread t nor what read_env
\* returns on t, so what a load() on t returned is still what it would return
\* as long as t's own scope and the real environment are untouched.
C14_ScopesArePerThread ==
  /\ [](Called => result = LoadType(caller, <<"Root">>).r)
  /\ [][\A t \in Threads :
          \/ /\ overrides'[t] = overrides[t]
             /\ \A k \in Keys : ReadEnv(t, k)' = ReadEnv(t, k)
          \/ \A u \in Threads \ {t} : ~ThreadStep(u)]_vars

C14_Witness ==
  /\ Called /\ caller = "t1" /\ result.ok
  /\ overrides["t1"] # NoneVal /\ overrides["t2"] # NoneVal
  /\ overrides["t1"].v["A"] = SomeVal(<<"5">>)
  /\ overrides["t2"].v["A"] = SomeVal(<<"x">>)
  /\ overrides["t1"].v["B"] = NoneVal
  /\ overrides["t2"].v["B"] = SomeVal(<<"5">>)
\* C15: while the calling thread has an active scope, read_env(k) is the
\* override of k if one was set and NotPresent otherwise, whatever the real
\* environment holds under k, and a load() resolves its fields from the
\* overrides alone; without a scope read_env(k) is what std::env::var returns.
C15_ReadEnvUnderScope ==
  /\ \A t \in Threads, k \in Keys :
       ReadEnv(t, k) =
         IF overrides[t] # NoneVal
         THEN IF overrides[t].v[k] # NoneVal
              THEN Ok(overrides[t].v[k].v)
              ELSE Err(NotPresent)
         ELSE IF env[k] = Unset THEN Err(NotPresent)
              ELSE IF env[k] = NonUnicode THEN Err(NotUnicode)
              ELSE Ok(env[k].s)
  /\ (Called /\ overrides[caller] # NoneVal)
     => \A c \in ResolvedLeaves :
          LET k == c.f.keys[1]
              o == overrides[caller].v[k]
          IN Len(c.f.keys) = 1
             => c.out.r = IF o = NoneVal
                          THEN HandleMissingValue(c.f, FieldIdx(c.i))
                          ELSE DecodeOrParsingError(c.f, FieldIdx(c.i), o.v, k)

C15_Witness ==
  /\ Called /\ overrides[caller] # NoneVal
  /\ env["A"] = Text(<<"5">>) /\ env["B"] = Text(<<"5">>)
  /\ overrides[caller].v["A"] = NoneVal
  /\ overrides[caller].v["B"] = SomeVal(<<"x">>)
  /\ ~result.ok
  /\ Len(result.e.field_errors) = 2
\* thread t drops the EnvOverrides value of its active scope: directly, at
\* the end of a wrapped function, or while unwinding
ScopeReleased(t) ==
  /\ IsInitialized(t)
  /\ Owned(t) > 0
  /\ CallDrop(t) \/ EnvVarsExit(t) \/ Unwind(t)

\* C16: once the EnvOverrides value is dropped on its thread, is_initialized()
\* is false there, get returns None for every key and read_env gives what the
\* real environment gives; an init() on a thread without active scope (as
\* after such a drop) succeeds and starts from an empty override map.
C16_DropEndsScope ==
  [][\A t \in Threads :
       /\ ScopeReleased(t)
          => /\ ~IsInitialized(t)'
             /\ handles'[t] = NoHandles
             /\ \A k \in Keys : /\ Get(t, k)' = NoneVal
                                /\ ReadEnv(t, k)' = StdEnvVar(k)'
       /\ (~IsInitialized(t) /\ CallInit(t))
          => /\ overrides'[t] = SomeVal([k \in Keys |-> NoneVal])
             /\ pc' = pc
             /\ Owned(t)' = Owned(t) + 1]_vars

C16_Witness ==
  \E t \in Threads :
    /\ pc[t] = AtWith("panicking", SomeVal(BodyPanic))
    /\ ~IsInitialized(t)
    /\ Owned(t) = 0
    /\ env["A"] = Text(<<"5">>)
    /\ ReadEnv(t, "A") = Ok(<<"5">>)
\* the override map in which exactly the listed pairs are set (a name listed
\* twice keeps its last value)
ListedMap(setters) ==
  [k \in Keys |->
     IF \E n \in DOMAIN setters : setters[n][1] = k
     THEN SomeVal(setters[CHOOSE n \in DOMAIN setters :
                            /\ setters[n][1] = k
                            /\ \A m \in DOMAIN setters : setters[m][1] = k => m <= n][2])
     ELSE NoneVal]

\* C17: a function wrapped by #[env_vars(..)], entered on a thread without
\* active scope, runs its body in a scope holding exactly the listed pairs; the
\* scope stays as it is during the body and is released when the wrapper
\* leaves, after a normal return and after a panic of the body alike, and the
\* panic is carried on only once the scope is gone.
C17_EnvVarsScope ==
  /\ [](\A t \in Threads :
          /\ pc[t].at \in {"body", "returned", "caught"}
             => IsInitialized(t) /\ Owned(t) = 1
          /\ pc[t] = AtWith("panicking", SomeVal(BodyPanic)) => ~IsInitialized(t))
  /\ [][\A t \in Threads :
          /\ (~IsInitialized(t) /\ pc[t].at = "idle" /\ pc'[t] # pc[t])
             => \A setters \in SetterLists :
                  EnvVarsEnter(t, setters)
                  => /\ pc'[t] = At("body")
                     /\ overrides'[t] = SomeVal(ListedMap(setters))
          /\ (~IsInitialized(t) /\ pc[t].at = "idle" /\ pc'[t] = pc[t])
             => \A setters \in SetterLists : ~EnvVarsEnter(t, setters)
          /\ (pc[t].at = "body" /\ pc'[t].at \in {"body", "returned", "caught"})
             => overrides'[t] = overrides[t]
          /\ EnvVarsExit(t)
             => /\ ~IsInitialized(t)'
                /\ handles'[t] = NoHandles
                /\ pc'[t] = IF pc[t].at = "caught"
                            THEN AtWith("panicking", pc[t].e)
                            ELSE At("idle")]_vars

C17_Witness ==
  \E t, u \in Threads :
    /\ pc[t] = AtWith("panicking", SomeVal(BodyPanic))
    /\ overrides[t] = NoneVal /\ Owned(t) = 0
    /\ pc[u] = At("returned")
    /\ overrides[u] = SomeVal([k \in Keys |->
                                 IF k = "A" THEN SomeVal(<<"5">>) ELSE SomeVal(<<"x">>)])
\* the first j - 1 candidate keys are absent and the j-th is found with text
FirstFound(keys, j) ==
  /\ \A i \in 1..(j - 1) : IsNotPresent(keys[i])
  /\ IsFound(keys[j])

\* C18: a non-optional leaf field with a default resolves to the default
\* exactly when every candidate key is NotPresent; when a key is found, the
\* field is what decoding that key's value gives: the decoded value, or a
\* ParsingError (never the default).
C18_DefaultOnlyWhenAllAbsent ==
  \A c \in ResolvedLeaves :
    (c.f.default # NoneVal /\ ~IsOption(c.f.ty))
    => /\ c.out.r = Ok(c.f.default.v) <=> AllNotPresent(c.f.keys)
       /\ \A j \in DOMAIN c.f.keys :
            FirstFound(c.f.keys, j)
            => c.out.r = DecodeOrParsingError(c.f, FieldIdx(c.i),
                                              Lookup(c.f.keys[j]).v, c.f.keys[j])

\* C19: an optional leaf field resolves to "no value" exactly when every
\* candidate key is NotPresent; when a key is found the field is "present"
\* with the decoded value, or a ParsingError carrying the raw value when the
\* value does not decode.
C19_NoneOnlyWhenAllAbsent ==
  \A c \in ResolvedLeaves :
    IsOption(c.f.ty)
    => /\ c.out.r = Ok(NoneVal) <=> AllNotPresent(c.f.keys)
       /\ \A j \in DOMAIN c.f.keys :
            FirstFound(c.f.keys, j)
            => LET raw == Lookup(c.f.keys[j]).v
                   inner == Decode(Tail(c.f.ty), raw)
               IN IF inner.ok
                  THEN c.out.r = Ok(SomeVal(inner.v))
                  ELSE /\ ~c.out.r.ok
                       /\ c.out.r.e.kind = "ParsingError"
                       /\ c.out.r.e.raw = raw

\* C20: every ParsingError node names the key that won the scan, the first
\* candidate key in declared order that is not NotPresent, and carries the
\* raw text the key source returned for it, the decoder's message and the
\* field's name and index.
C20_ParsingErrorPayload ==
  \A c \in ResolvedLeaves :
    (~c.out.r.ok /\ c.out.r.e.kind = "ParsingError")
    => \E j \in DOMAIN c.f.keys :
         /\ FirstFound(c.f.keys, j)
         /\ c.out.r.e.env_var_name = c.f.keys[j]
         /\ c.out.r.e.raw = Lookup(c.f.keys[j]).v
         /\ c.out.r.e.message = Decode(c.f.ty, Lookup(c.f.keys[j]).v).e
         /\ c.out.r.e.field_name = c.f.ident
         /\ c.out.r.e.field_idx = FieldIdx(c.i)
\* C21: every MissingValue node carries the field's name and index and the
\* complete list of the field's candidate keys in declared order.
C21_MissingValuePayload ==
  \A c \in ResolvedLeaves :
    (~c.out.r.ok /\ c.out.r.e.kind = "MissingValue")
    => /\ c.out.r.e.env_vars = c.f.keys
       /\ c.out.r.e.field_name = c.f.ident
       /\ c.out.r.e.field_idx = FieldIdx(c.i)

C21_Witness ==
  /\ Called /\ ~result.ok
  /\ \E n \in DOMAIN result.e.field_errors :
       /\ result.e.field_errors[n].kind = "MissingValue"
       /\ result.e.field_errors[n].env_vars = <<"B", "A">>
       /\ result.e.field_errors[n].field_name = SomeVal("f0")
\* C22: resolution keeps no state between calls: whatever calls were made
\* before, by this thread or another, what a load() returned (result, key
\* lookups, per-field outcomes) is what a resolution against the caller's key
\* source as it is now gives, for as long as that key source is unchanged; a
\* repeated load() on the same thread returns an equal result.
C22_NoStateBetweenCalls ==
  /\ [](Called
        => LET fresh == LoadType(caller, <<"Root">>)
           IN /\ result = fresh.r
              /\ lookups = fresh.log
              /\ attempts = fresh.attempts)
  /\ [][\A t \in Threads :
          (result # NoCall /\ caller = t /\ Load(t))
          => result' = result /\ lookups' = lookups /\ attempts' = attempts]_vars

C22_Witness ==
  /\ Called /\ caller = "t2" /\ ~result.ok
  /\ overrides["t2"] # NoneVal
  /\ overrides["t2"].v["A"] = SomeVal(<<"x">>)
  /\ overrides["t2"].v["B"] = SomeVal(<<"5">>)
  /\ pc["t1"].at = "body"
  /\ overrides["t1"].v["A"] = SomeVal(<<"5">>)
  /\ env["A"] = Text(<<"5">>)
\* C23: set(k, v) on a thread with an active scope makes v the entry of k in
\* that thread's override map, whatever k held before, and changes nothing
\* else: not the entries of the other keys, not the maps of the other
\* threads, not the real environment.
C23_SetChangesOneEntry ==
  [][\A t \in Threads, k \in Keys, v \in RawValues :
       (IsInitialized(t) /\ CallSet(t, k, v))
       => /\ overrides'[t] # NoneVal
          /\ overrides'[t].v[k] = SomeVal(v)
          /\ \A k2 \in Keys \ {k} : overrides'[t].v[k2] = overrides[t].v[k2]
          /\ \A u \in Threads \ {t} : overrides'[u] = overrides[u]
          /\ env' = env
          /\ pc' = pc /\ handles' = handles]_vars

C23_Witness ==
  /\ pc["t1"] = At("idle") /\ pc["t2"] = At("idle")
  /\ Owned("t1") = 1 /\ Owned("t2") = 1
  /\ overrides["t1"] = SomeVal([k \in Keys |->
                                  IF k = "A" THEN SomeVal(<<"x">>) ELSE SomeVal(<<"5">>)])
  /\ overrides["t2"] = SomeVal([k \in Keys |->
                                  IF k = "A" THEN SomeVal(<<"5">>) ELSE NoneVal])
  /\ env["A"] = Text(<<"5">>) /\ env["B"] = Unset

-----------------------------------------------------------------------------
(* Loading a field whose type derives its decoder *)

MaxRawLen == 2      \* characters of a raw value handed to a derived decoder

DecodeChars == {"o", "O", "n", "N", "1"}

DecodeRawValues == UNION {[1..n -> DecodeChars] : n \in 0..MaxRawLen}

\* struct Root { #[env("A")] switch: <an enum deriving ConfigValueDecoder> }
DecodeSchemas ==
  {StructDef("Root", <<LeafField(SomeVal("switch"), <<"A">>, NoneVal, ty)>>) :
     ty \in ValueEnumTypes}

InitDecode ==
  /\ root \in DecodeSchemas
  /\ env = [k \in Keys |-> Unset]
  /\ overrides = [t \in Threads |-> NoneVal]
  /\ caller = NoThread
  /\ result = NoCall
  /\ lookups = <<>>
  /\ attempts = <<>>
  /\ handles = [t \in Threads |-> NoHandles]
  /\ pc = [t \in Threads |-> At("idle")]
  /\ printed = NoCall

NextDecode ==
  \/ \E raw \in DecodeRawValues : SetVar("A", Text(raw))
  \/ \E k \in Keys : RemoveVar(k)
  \/ \E t \in Threads : Load(t)

SpecDecode == InitDecode /\ [][NextDecode]_vars

-----------------------------------------------------------------------------
(* The printed list *)

Printed == printed # NoCall

RECURSIVE LeafChains(_, _)
\* the leaves of an error tree, depth first, each with the nodes above it
LeafChains(errors, above) ==
  IF errors = <<>> THEN <<>>
  ELSE LET e == Head(errors)
       IN (IF e.kind = "Nested"
           THEN LeafChains(e.error.field_errors, Append(above, e))
           ELSE <<Append(above, e)>>)
          \o LeafChains(Tail(errors), above)

\* the decimal numeral of n
Decimal(n) ==
  CHOOSE ds \in UNION {[1..l -> 0..9] : l \in 1..2} :
    /\ (Len(ds) > 1 => ds[1] # 0)
    /\ n = (IF Len(ds) = 1 THEN ds[1] ELSE 10 * ds[1] + ds[2])

DecimalText(n) == [i \in DOMAIN Decimal(n) |-> DigitChars[Decimal(n)[i] + 1]]

\* the declared name of a node's field, or its position
SegmentText(e) ==
  IF e.field_name # NoneVal THEN <<e.field_name.v>> ELSE DecimalText(e.field_idx)

\* the field path a printed line shows
LinePath(line) == IF line.fmt = ParsingErrorFmt THEN line.args[2] ELSE line.args[1]

RECURSIVE SplitDots(_)
\* the pieces of a text between its '.' separators
SplitDots(s) ==
  IF \A i \in DOMAIN s : s[i] # "." THEN <<s>>
  ELSE LET i == CHOOSE i \in DOMAIN s :
                  s[i] = "." /\ \A j \in 1..(i - 1) : s[j] # "."
       IN <<SubSeq(s, 1, i - 1)>> \o SplitDots(SubSeq(s, i + 1, Len(s)))

\* C24: the path printed for a leaf lying under d Nested nodes has d + 1
\* segments joined by '.', the i-th being the declared name of the i-th
\* field on the way down, or its position in decimal when it has no name
C24_DottedPath ==
  Printed =>
    LET chains == LeafChains(result.e.field_errors, <<>>)
    IN \A i \in DOMAIN chains :
         /\ i + 1 \in DOMAIN printed
         /\ LET segs == SplitDots(LinePath(printed[i + 1]))
            IN /\ Len(segs) = Len(chains[i])
               /\ \A j \in DOMAIN segs : segs[j] = SegmentText(chains[i][j])

\* a leaf two levels down in unnamed fields is printed as 1.0.a
C24_Witness ==
  /\ Printed
  /\ \E i \in DOMAIN printed :
       i > 1 /\ LinePath(printed[i]) = <<"1", ".", "0", ".", "a">>

\* what a printed line shows of a leaf besides its path
LineOfLeaf(line, e) ==
  CASE e.kind = "ParsingError" ->
         /\ line.fmt = ParsingErrorFmt
         /\ line.args[1] = <<e.env_var_name>>
         /\ line.args[4] = e.raw
    [] e.kind = "MissingValue" ->
         /\ line.fmt = MissingValueFmt
         /\ SplitDots([i \in DOMAIN line.args[2] |->
                         IF line.args[2][i] = ", " THEN "." ELSE line.args[2][i]])
              = [i \in DOMAIN e.env_vars |-> <<e.env_vars[i]>>]
    [] e.kind = "Other" ->
         /\ line.fmt = OtherFmt
         /\ line.args[2] = <<e.message>>

\* C27: the list opens with "Found N configuration error(s):", N being the
\* number of leaves of the tree at any depth (Nested nodes are not counted),
\* followed by one line per leaf in depth-first declaration order
C27_HeaderCountsLeaves ==
  Printed =>
    LET chains == LeafChains(result.e.field_errors, <<>>)
    IN /\ printed[1] = [fmt |-> HeaderFmt, args |-> <<DecimalText(Len(chains))>>]
       /\ Len(printed) = Len(chains) + 1
       /\ \A i \in DOMAIN chains :
            LET leaf == chains[i][Len(chains[i])]
            IN /\ LineOfLeaf(printed[i + 1], leaf)
               /\ LinePath(printed[i + 1])[Len(LinePath(printed[i + 1]))]
                    = SegmentText(leaf)[Len(SegmentText(leaf))]

\* a tree of two top-level nodes, the first a Nested node of a Nested node,
\* printed as three or more leaves of different kinds
C27_Witness ==
  /\ Printed
  /\ Len(result.e.field_errors) = 2
  /\ result.e.field_errors[1].kind = "Nested"
  /\ Len(printed) >= 4
  /\ \E i, j \in 2..Len(printed) : printed[i].fmt # printed[j].fmt

-----------------------------------------------------------------------------
(* Derived enum decoders *)

\* the raw value the loaded field was decoded from
DecodedRaw == env["A"].s

Decoding == Called /\ env["A"].tag = "text"

\* the declared variants of the field's enum
DeclaredVariants == ValueEnumDef(root.fields[1].ty)

\* two letters that differ at most in case
SameLetter(c, d) ==
  \/ c = d
  \/ {c, d} \in {{"o", "O"}, {"n", "N"}}

\* raw equals the declared name of variant V ignoring letter case
NamesIgnoringCase(raw, V) ==
  LET name == IdentToString(V)
  IN /\ Len(raw) = Len(name)
     /\ \A i \in DOMAIN name : SameLetter(raw[i], name[i])

\* load() decoded the field to variant V
Selected(V) ==
  /\ result.ok
  /\ result.v.fields[1].v.variant = V

\* the decode error of a raw value that matches no variant names that value
DecodeErrorNamesRaw ==
  /\ ~result.ok
  /\ Len(result.e.field_errors) = 1
  /\ result.e.field_errors[1].kind = "ParsingError"
  /\ result.e.field_errors[1].raw = DecodedRaw
  /\ \E i \in DOMAIN result.e.field_errors[1].message.args :
       result.e.field_errors[1].message.args[i] = DecodedRaw

\* C25 as stated: variant V is selected exactly when the raw string equals
\* V's declared name ignoring letter case, and a raw string matching no
\* declared name yields a decode error whose message contains it
C25_SelectsExactlyWhenNameMatches ==
  Decoding =>
    /\ \A i \in DOMAIN DeclaredVariants :
         Selected(DeclaredVariants[i])
           <=> NamesIgnoringCase(DecodedRaw, DeclaredVariants[i])
    /\ (\A i \in DOMAIN DeclaredVariants :
          ~NamesIgnoringCase(DecodedRaw, DeclaredVariants[i]))
         => DecodeErrorNamesRaw

\* C25 amended: the variant selected is the first declared one whose name
\* equals the raw string ignoring letter case (a later variant whose name
\* differs from it only in case is never selected), and a raw string matching
\* no declared name yields a decode error whose message contains it
C25_SelectsFirstNameMatching ==
  Decoding =>
    /\ \A i \in DOMAIN DeclaredVariants :
         Selected(DeclaredVariants[i])
           <=> /\ NamesIgnoringCase(DecodedRaw, DeclaredVariants[i])
               /\ \A j \in 1..(i - 1) :
                    ~NamesIgnoringCase(DecodedRaw, DeclaredVariants[j])
    /\ (\A i \in DOMAIN DeclaredVariants :
          ~NamesIgnoringCase(DecodedRaw, DeclaredVariants[i]))
         => DecodeErrorNamesRaw

\* a raw value written in another case than the declared name selects the
\* variant, in an enum that declares a second name differing only in case
C25_Witness ==
  /\ Decoding
  /\ DecodedRaw = <<"o", "N">>
  /\ DeclaredVariants = <<"No", "On", "ON">>
  /\ Selected("On")

-----------------------------------------------------------------------------
(* Key lookups of one field *)

\* C26: the lookups of one field resolution follow the declared key order, one
\* lookup per key from the first on (so at most as many as there are candidate
\* keys), and stop at the first key that is present, decodable or not: no key
\* declared after it is looked up
C26_LookupsStopAtFirstPresent ==
  \A c \in ResolvedLeaves :
    /\ Len(c.out.log) <= Len(c.f.keys)
    /\ \A j \in DOMAIN c.out.log : c.out.log[j] = c.f.keys[j]
    /\ \A j \in DOMAIN c.f.keys :
         (~IsNotPresent(c.f.keys[j])
          /\ \A i \in 1..(j - 1) : IsNotPresent(c.f.keys[i]))
         => Len(c.out.log) = j

-----------------------------------------------------------------------------
(* Order of the variant attempts *)

RECURSIVE AttemptLogs(_)
\* the key lookups of the first n attempts, in order
AttemptLogs(n) ==
  IF n = 0 THEN <<>>
  ELSE AttemptLogs(n - 1)
         \o TupleLog(attempts[n].temp_tuple, Len(attempts[n].temp_tuple))

\* C29: load() on a sum type attempts the variants in declaration order from
\* the first on, a variant only after every earlier one returned an error;
\* the attempt that succeeds is the last one, all variants are attempted when
\* none succeeds, and the keys looked up are those of the attempted variants
C29_VariantsInOrderUntilSuccess ==
  (Called /\ root.kind = "enum")
  => /\ Len(attempts) \in 1..Len(root.variants)
     /\ \A k \in DOMAIN attempts : attempts[k].variant = k
     /\ \A k \in 1..(Len(attempts) - 1) : ~attempts[k].r.ok
     /\ ~attempts[Len(attempts)].r.ok => Len(attempts) = Len(root.variants)
     /\ result = attempts[Len(attempts)].r
     /\ lookups = AttemptLogs(Len(attempts))

\* the first of two variants succeeds and the key of the second, which is
\* set, is not looked up
C29_Witness ==
  /\ Called /\ root.kind = "enum"
  /\ Len(root.variants) = 2
  /\ root.variants[2].fields # <<>>
  /\ ~root.variants[2].fields[1].nested
  /\ \A j \in DOMAIN root.variants[2].fields[1].keys :
       /\ IsFound(root.variants[2].fields[1].keys[j])
       /\ \A i \in DOMAIN lookups : lookups[i] # root.variants[2].fields[1].keys[j]
  /\ lookups # <<>>
  /\ Len(attempts) = 1
  /\ result.ok

-----------------------------------------------------------------------------
(* EnvOverrides values and the threads that made them *)

\* the live EnvOverrides values that init() returned on thread c, whoever owns them
LiveHandlesOf(c) == {u \in Threads : handles[u][c] > 0}

\* this step drops one EnvOverrides value that thread c made and thread t owns
Drops(t, c) ==
  /\ handles[t][c] > 0
  /\ handles' = [handles EXCEPT ![t][c] = @ - 1]

\* C28: a thread's override scope is active exactly when an EnvOverrides value
\* that init() returned on that thread is still live, whichever thread owns
\* it; and dropping such a value ends the scope of the thread that made it and
\* changes the scope of no other thread
C28_ScopeFollowsCreatedHandle ==
  /\ [](\A t \in Threads : IsInitialized(t) <=> LiveHandlesOf(t) # {})
  /\ [][\A t, c \in Threads :
          Drops(t, c)
          => /\ ~IsInitialized(c)'
             /\ \A u \in Threads \ {c} : IsInitialized(u)' = IsInitialized(u)]_vars

\* C30: set() called by a thread that has no active scope panics with
\* "TestOverrides not initialized." and changes nothing: no thread's override
\* map is created or written, and the environment is left as it is
C30_SetWithoutScope ==
  [][\A t \in Threads :
       (/\ ~IsInitialized(t)
        /\ pc[t].at = "idle" /\ Owned(t) > 0
        /\ handles' = handles
        /\ \E k \in Keys, v \in RawValues : CallSet(t, k, v))
       => /\ pc'[t] = AtWith("panicking", SomeVal(NotInitialized))
          /\ \A u \in Threads \ {t} : pc'[u] = pc[u]
          /\ overrides' = overrides
          /\ env' = env]_vars

\* a thread that was handed the EnvOverrides value of another thread, whose
\* scope holds an entry, has called set() without a scope of its own
C30_Witness ==
  \E t \in Threads :
    /\ ~IsInitialized(t)
    /\ Owned(t) > 0
    /\ pc[t] = AtWith("panicking", SomeVal(NotInitialized))
    /\ \E u \in Threads \ {t} :
         /\ IsInitialized(u)
         /\ \E k \in Keys : Get(u, k) # NoneVal

====
